---- MODULE Spec2Model ----
(***************************************************************************)
(* A model of type_templating: C++-style templates for Python.            *)
(*                                                                         *)
(* State: the declared Template objects (their __params__, __expr_bases__, *)
(* __bases__ and _instantiations cache), every class object that exists   *)
(* (private implementation bases, concrete instantiations, plain classes, *)
(* the Template objects themselves) with its bases, its MRO and the part  *)
(* of its __dict__ the library reads, and for each thread the call it is  *)
(* executing (a stack of _substitute frames) and what its last call gave  *)
(* back.  An instance lives as long as a thread holds it: a thread holds  *)
(* the outcome of its last operation until it starts the next one.        *)
(* `object`, the last entry of every MRO, carries none of the attributes  *)
(* the library reads and is left out of the MROs.                          *)
(***************************************************************************)
EXTENDS Integers, Sequences, FiniteSets, TLC

VARIABLES
    templates,       \* tid -> the Template object's own attributes
    instantiations,  \* tid -> its _instantiations dict: key tuple -> class
    classes,         \* class reference -> [bases, mro, and its __dict__]
    stack,           \* thread -> its stack of _substitute frames
    op,              \* thread -> the __getitem__/__call__ in progress
    ret              \* thread -> what the thread's last operation returned

vars == <<templates, instantiations, classes, stack, op, ret>>

----------------------------------------------------------------------------
(* Bounds of the model *)

MaxLen == 2         \* longest subscript tuple / constructor argument
MaxTemplates == 3   \* templates declared in one run
MaxInsts == 4       \* concrete instantiations built in one run

Threads == {1, 2}
\* A sequential run is the run of one thread.
SeqThreads == {1}

----------------------------------------------------------------------------
(* Values *)

\* TemplateParameter objects, by identity.  K and V of the test-suite.
K == "K"
V == "V"
Params == {K, V}

Param(p) == [k |-> "param", p |-> p, n |-> 0]
Val(v) == [k |-> "val", p |-> "", n |-> v]
\* The values test_basic gives as template arguments (Foo[1, 2]); a hook
\* that infers an argument from a length adds the lengths up to MaxLen.
Values == {Val(1), Val(2)}
Args == {Param(p) : p \in Params} \cup Values

\* isinstance(a, TemplateParameter)
IsParam(a) == a.k = "param"

\* A class given as a template argument: the template that is being
\* subscripted (Foo[Foo]), or one of its instantiations (Foo[Foo[1]]).
\* Like every argument that is no TemplateParameter it is a dictionary key
\* to the library and nothing more.
ClassArg == [k |-> "val", p |-> "cls", n |-> 0]

\* Class references, by identity.  A concrete instantiation is identified as
\* the n-th class object built for template t and argument tuple a.
PlainRef(c) == [k |-> "plain", t |-> c, a |-> <<>>, n |-> 0]
\* A TemplateParameter listed among the bases of a class statement.
ParamRef(p) == [k |-> "param", t |-> p, a |-> <<>>, n |-> 0]
BaseRef(t) == [k |-> "base", t |-> t, a |-> <<>>, n |-> 0]
InstRef(t, a, n) == [k |-> "inst", t |-> t, a |-> a, n |-> n]
TmplRef(t) == [k |-> "tmpl", t |-> t, a |-> <<>>, n |-> 0]
NoRef == [k |-> "none", t |-> "", a |-> <<>>, n |-> 0]
\* The outcome of an MRO computation the host runtime rejects.
NoMro == [k |-> "nomro", t |-> "", a |-> <<>>, n |-> 0]

\* A user class that is no template (class Test: pass).
Test == PlainRef("Test")

NoHook == [kind |-> "none", infer |-> "", own |-> ""]
NoBinding == <<>>

Range(s) == {s[i] : i \in DOMAIN s}
Min(S) == CHOOSE x \in S : \A y \in S : x <= y

----------------------------------------------------------------------------
(* Names *)

ArgsMember == <<"a", "r", "g", "s">>

RECURSIVE LStrip(_)
\* str.lstrip('_')
LStrip(name) ==
    IF name # <<>> /\ Head(name) = "_" THEN LStrip(Tail(name)) ELSE name

\* _mangle(name, member): '_{}__{}'.format(name.lstrip('_'), member)
Mangle(name, member) == <<"_">> \o LStrip(name) \o <<"_", "_">> \o member

\* _make_template_name(name, args): the name and the displayed arguments
MakeTemplateName(name, args) == [name |-> name, args |-> args]

----------------------------------------------------------------------------
(* The class declarations a run may execute.  Foo, Baz and Outer are those *)
(* of test_basic (Baz with the inference hook of the documentation's       *)
(* MyList), HasBaseOf is that of test_base_class_as_parameter; the others  *)
(* are further declarations a user may write.                              *)

ExprBase(t, args) == [k |-> "expr", t |-> t, args |-> args]
InstBase(t, args) == [k |-> "inst", t |-> t, args |-> args]
PlainBase(c) == [k |-> "plain", t |-> c.t, args |-> <<>>]
ParamBase(p) == [k |-> "param", t |-> p, args |-> <<>>]

Foo == "Foo"
Baz == "Baz"
Outer == "Outer"
Sub == "Sub"
Foo2 == "Foo2"
Bad == "Bad"
HasBaseOf == "HasBaseOf"
Una == "Una"

Program ==
    [t \in {Foo, Baz, Outer, Sub, Foo2, Bad, HasBaseOf, Una} |->
      CASE t = Foo ->
            \* class Foo(metaclass=Template[K, V])
            [name |-> <<"F", "o", "o">>, qualname |-> "Foo",
             params |-> <<K, V>>, bases |-> <<>>, hook |-> NoHook]
        [] t = Baz ->
            \* class Baz(Foo[K, K], metaclass=Template[K]), with
            \* def __newinferred__(cls, s): return cls[len(s)](s)
            [name |-> <<"B", "a", "z">>, qualname |-> "Baz",
             params |-> <<K>>,
             bases |-> <<ExprBase(Foo, <<Param(K), Param(K)>>)>>,
             hook |-> [kind |-> "infer", infer |-> "len", own |-> ""]]
        [] t = Outer ->
            \* class Outer(Baz[K], Foo[1, 2], metaclass=Template[K]), with
            \* def __newinferred__(cls, s): return Outer[len(s)](s)
            [name |-> <<"O", "u", "t", "e", "r">>, qualname |-> "Outer",
             params |-> <<K>>,
             bases |-> <<ExprBase(Baz, <<Param(K)>>),
                         InstBase(Foo, <<Val(1), Val(2)>>)>>,
             hook |-> [kind |-> "infer", infer |-> "len", own |-> Outer]]
        [] t = Sub ->
            \* class _Sub(Baz[K], Test, metaclass=Template[K])
            [name |-> <<"_", "S", "u", "b">>, qualname |-> "_Sub",
             params |-> <<K>>,
             bases |-> <<ExprBase(Baz, <<Param(K)>>), PlainBase(Test)>>,
             hook |-> NoHook]
        [] t = Foo2 ->
            \* in another scope: class Foo(Foo[K, 1], metaclass=Template[K]),
            \* with def __newinferred__(cls, s): return Test()
            [name |-> <<"F", "o", "o">>, qualname |-> "other.Foo",
             params |-> <<K>>,
             bases |-> <<ExprBase(Foo, <<Param(K), Val(1)>>)>>,
             hook |-> [kind |-> "plain", infer |-> "", own |-> ""]]
        [] t = Bad ->
            \* class Bad(Baz[K], Foo[V, K], metaclass=Template[K])
            [name |-> <<"B", "a", "d">>, qualname |-> "Bad",
             params |-> <<K>>,
             bases |-> <<ExprBase(Baz, <<Param(K)>>),
                         ExprBase(Foo, <<Param(V), Param(K)>>)>>,
             hook |-> NoHook]
        [] t = HasBaseOf ->
            \* class HasBaseOf(K, metaclass=Template[K])
            [name |-> <<"H", "a", "s", "B", "a", "s", "e", "O", "f">>,
             qualname |-> "HasBaseOf",
             params |-> <<K>>, bases |-> <<ParamBase(K)>>, hook |-> NoHook]
        [] OTHER ->
            \* class Una(Baz[1], Foo[K, K], metaclass=Template[K, V])
            [name |-> <<"U", "n", "a">>, qualname |-> "Una",
             params |-> <<K, V>>,
             bases |-> <<InstBase(Baz, <<Val(1)>>),
                         ExprBase(Foo, <<Param(K), Param(K)>>)>>,
             hook |-> NoHook]]

----------------------------------------------------------------------------
(* Classes: attribute lookup and the MRO *)

ClassRec(name, bases, mro, template, argsattr, args, hook) ==
    [name |-> name, bases |-> bases, mro |-> mro, template |-> template,
     argsattr |-> argsattr, args |-> args, hook |-> hook]

EmptyDict == [key \in {} |-> NoRef]

\* c.mro()
MroOf(c) == classes[c].mro

\* Attribute lookup on a class: the first class of c's MRO among `having`,
\* the classes whose own __dict__ holds the attribute; NoRef if there is none.
Lookup(c, having) ==
    LET hits == {i \in 1..Len(MroOf(c)) : MroOf(c)[i] \in having}
    IN IF hits = {} THEN NoRef ELSE MroOf(c)[Min(hits)]

\* getattr(c, '__template__', None)
GetTemplate(c) ==
    LET d == Lookup(c, {x \in DOMAIN classes : classes[x].template # ""})
    IN IF d = NoRef THEN "" ELSE classes[d].template

\* cls.__args as compiled in the class body of a class named `name`:
\* the attribute _<name>__args of cls; NoBinding stands for AttributeError.
GetArgs(c, name) ==
    LET d == Lookup(c, {x \in DOMAIN classes :
                           classes[x].argsattr = Mangle(name, ArgsMember)})
    IN IF d = NoRef THEN NoBinding ELSE classes[d].args

\* Faulty variant: only the class's own dictionary is searched for the hook
GetNewInferredOwn(c) == classes[c].hook

\* cls.__base__.__newinferred__; NoHook stands for AttributeError
GetNewInferred(c) ==
    LET d == Lookup(c, {x \in DOMAIN classes : classes[x].hook.kind # "none"})
    IN IF d = NoRef THEN NoHook ELSE classes[d].hook

InTail(x, s) == \E i \in 2..Len(s) : s[i] = x

\* The sequences left once class h has been taken
MergeTake(seqs, h) ==
    [j \in 1..Len(seqs) |->
        IF seqs[j] # <<>> /\ Head(seqs[j]) = h THEN Tail(seqs[j]) ELSE seqs[j]]

\* h in front of the merge of the rest, unless that merge failed
MergeCons(h, rest) ==
    IF NoMro \in Range(rest) THEN <<NoMro>> ELSE <<h>> \o rest

RECURSIVE Merge(_)
\* The C3 merge type.__new__ runs over the bases' MROs and the base list:
\* the head of the first sequence whose head is in no sequence's tail is
\* taken, until every sequence is empty.  The class taken, the sequences
\* left and their merge are each bound once.
Merge(seqs) ==
    LET good == {i \in 1..Len(seqs) :
                    /\ seqs[i] # <<>>
                    /\ \A j \in 1..Len(seqs) : ~InTail(Head(seqs[i]), seqs[j])}
    IN IF \A i \in 1..Len(seqs) : seqs[i] = <<>> THEN <<>>
       ELSE IF good = {} THEN <<NoMro>>
       ELSE CHOOSE m \in
              UNION {{MergeCons(h, rest) :
                        rest \in {Merge(s) : s \in {MergeTake(seqs, h)}}} :
                     h \in {Head(seqs[Min(good)])}} : TRUE

\* The MRO type(name, bases, dict) gives the new class `self`; <<NoMro>> when
\* it raises TypeError (a base that is no class, or no consistent MRO).
Linearize(self, bases) ==
    IF \E i \in 1..Len(bases) : bases[i] \notin DOMAIN classes
    THEN <<NoMro>>
    ELSE CHOOSE mro \in
           {IF NoMro \in Range(m) THEN <<NoMro>> ELSE <<self>> \o m :
              m \in {Merge(s) :
                       s \in {[i \in 1..Len(bases) |-> MroOf(bases[i])]
                                 \o <<bases>>}}} : TRUE

\* Faulty variant: only the class itself is asked for __template__, not its MRO
SubclassCheckSelf(cls, subclass) == GetTemplate(subclass) = cls

\* Template.__subclasscheck__(cls, subclass)
SubclassCheck(cls, subclass) ==
    \E i \in 1..Len(MroOf(subclass)) : GetTemplate(MroOf(subclass)[i]) = cls

\* An instance: its identity and type(instance)
Instance(id, class) == [id |-> id, class |-> class]

\* Template.__instancecheck__(cls, instance)
InstanceCheck(cls, instance) == SubclassCheck(cls, instance.class)

\* issubclass(c, d) for a class d that is no Template
IsSubclass(c, d) == d \in Range(MroOf(c))

----------------------------------------------------------------------------
(* Outcomes *)

NoInstance == Instance(0, NoRef)

\* The __getitem__ or __call__ a thread is in: the template and arguments it
\* was called with and, once the inference hook has returned, its result i.
OpRec(kind, template, items, i) ==
    [kind |-> kind, template |-> template, items |-> items, i |-> i]

Idle == OpRec("idle", "", <<>>, NoInstance)

\* What an operation gives its caller: a Template object, a
\* TemplateExpression, a class (cached: by the cache lookup of line 229),
\* an instance (ref is its class, obj its identity), or an exception.
Outcome(kind, ref, obj, err, cached) ==
    [kind |-> kind, ref |-> ref, obj |-> obj, err |-> err, cached |-> cached]

Error(err) == Outcome("error", NoRef, 0, err, FALSE)

NoOutcome == Outcome("none", NoRef, 0, "", FALSE)

\* The identity of a newly allocated instance: one no live instance has.
NewId ==
    Min((1..(2 * Cardinality(Threads)))
        \ ({ret[t].obj : t \in Threads} \cup {op[t].i.id : t \in Threads}))

----------------------------------------------------------------------------
(* Inputs *)

NoArg == [k |-> "none", p |-> "", n |-> 0]

Tuples(S, n) == UNION {[1..m -> S] : m \in 0..n}

\* What is written between the brackets of T[...]: one object or a tuple.
\* For a template of n parameters: every tuple of n arguments, and tuples
\* of every length up to MaxLen of one parameter or of one value.
Subscripts(n) ==
    {[tuple |-> FALSE, item |-> a, items |-> <<>>] : a \in Args}
    \cup {[tuple |-> TRUE, item |-> NoArg, items |-> s] :
            s \in [1..n -> Args] \cup Tuples({Param(K)}, MaxLen)
                                  \cup Tuples({Val(1)}, MaxLen)}

\* The subscripts tried on a template, by its number of parameters
SubscriptsOf == [n \in 0..MaxLen |-> Subscripts(n)]

\* if not isinstance(items, tuple): items = (items,)
Normalize(sub) == IF sub.tuple THEN sub.items ELSE <<sub.item>>

\* The sequence passed to a template called as a constructor: the hooks
\* of the declarations read its length only.
Ctors == Tuples({Val(1)}, MaxLen) \ {<<>>}

----------------------------------------------------------------------------
(* TemplateExpression._substitute *)

Frame(template, args, arg_values, pc, arg_dict, done, inst) ==
    [template |-> template, args |-> args, arg_values |-> arg_values,
     pc |-> pc, arg_dict |-> arg_dict, done |-> done, inst |-> inst]

\* TemplateExpression(template, args)._substitute(arg_values), about to start
Enter(template, args, arg_values) ==
    Frame(template, args, arg_values, "lookup", NoBinding, <<>>, NoRef)

Top(t) == stack[t][Len(stack[t])]

\* arg_values[a] raises KeyError for some parameter a of self.args
KeyErrorIn(args, arg_values) ==
    \E i \in 1..Len(args) : IsParam(args[i]) /\ args[i].p \notin DOMAIN arg_values

\* Faulty variant: the parameters are left in place instead of being substituted
SubstArgsNone(args, arg_values) == args

\* args = tuple([arg_values[a] if isinstance(a, TemplateParameter) else a ...])
SubstArgs(args, arg_values) ==
    [i \in 1..Len(args) |->
        IF IsParam(args[i]) THEN arg_values[args[i].p] ELSE args[i]]

\* Faulty variant: the arguments are zipped to the parameters back to front
ArgDictSwapped(params, args) ==
    LET n == Min({Len(params), Len(args)})
    IN [p \in {params[i] : i \in 1..n} |->
          args[n + 1 - CHOOSE i \in 1..n : params[i] = p]]

\* {p: a for p, a in zip(self.template.__params__, args)}
ArgDict(params, args) ==
    LET n == Min({Len(params), Len(args)})
    IN [p \in {params[i] : i \in 1..n} |->
          args[CHOOSE i \in 1..n :
                  params[i] = p /\ \A j \in 1..n : params[j] = p => j <= i]]

\* Faulty variant: the lookup always raises KeyError: nothing is memoized
CacheMiss(template, args) == FALSE

\* self.template._instantiations[args] does not raise KeyError
CacheHit(template, args) == args \in DOMAIN instantiations[template]

\* Faulty variant: the new class is returned but never stored
CacheStoreNothing(dict, args, inst) == dict

\* Faulty variant: the store replaces the dictionary by the one new entry
CacheStoreAlone(dict, args, inst) == args :> inst

\* self.template._instantiations[args] = inst
CacheStore(dict, args, inst) == (args :> inst) @@ dict

\* Faulty variant: the resolved expression bases are left out of the new class
InstBasesNoExprs(done, template) == templates[template].bases

\* Faulty variant: the template's own base ahead of the resolved expressions
InstBasesBaseFirst(done, template) == templates[template].bases \o done

\* bases = tuple(expr._substitute(arg_dict) for ...) + self.template.__bases__
InstBases(done, template) == done \o templates[template].bases

\* The class dictionary and name given to type(...) for the new instantiation
InstClass(template, args, arg_dict, bases, mro) ==
    ClassRec(MakeTemplateName(templates[template].qualname, args), bases, mro,
             template, Mangle(templates[template].name, ArgsMember), arg_dict,
             NoHook)

NumInsts == Cardinality({c \in DOMAIN classes : c.k = "inst"})

\* The class object type(...) allocates: a new one, distinct from every other
NewInst(template, args) ==
    InstRef(template, args,
            1 + Cardinality({c \in DOMAIN classes :
                                c.k = "inst" /\ c.t = template /\ c.a = args}))

\* An exception leaves every frame of the thread: nothing in the library
\* catches it on the way out.
Raise(t, err) ==
    /\ stack' = [stack EXCEPT ![t] = <<>>]
    /\ op' = [op EXCEPT ![t] = Idle]
    /\ ret' = [ret EXCEPT ![t] = Error(err)]

\* Faulty variant: the calling frame does not advance to its next base
ReturnNoAdvance(t, inst, cached) ==
    IF Len(stack[t]) > 1
    THEN /\ stack' = [stack EXCEPT ![t] = SubSeq(@, 1, Len(@) - 1)]
         /\ UNCHANGED <<op, ret>>
    ELSE /\ stack' = [stack EXCEPT ![t] = <<>>]
         /\ IF op[t].kind = "getitem"
            THEN /\ op' = [op EXCEPT ![t] = Idle]
                 /\ ret' = [ret EXCEPT ![t] = Outcome("type", inst, 0, "", cached)]
            ELSE /\ op' = [op EXCEPT ![t] = [@ EXCEPT !.i = Instance(NewId, inst)]]
                 /\ UNCHANGED ret

\* return of the frame on top of the stack: to the calling frame's generator,
\* to __getitem__'s caller, or to the inference hook, which constructs an
\* instance of the returned class
Return(t, inst, cached) ==
    IF Len(stack[t]) > 1
    THEN /\ stack' = [stack EXCEPT ![t] =
              SubSeq(@, 1, Len(@) - 2) \o
                 <<[@[Len(@) - 1] EXCEPT !.done = Append(@, inst)]>>]
         /\ UNCHANGED <<op, ret>>
    ELSE /\ stack' = [stack EXCEPT ![t] = <<>>]
         /\ IF op[t].kind = "getitem"
            THEN /\ op' = [op EXCEPT ![t] = Idle]
                 /\ ret' = [ret EXCEPT ![t] = Outcome("type", inst, 0, "", cached)]
            ELSE /\ op' = [op EXCEPT ![t] = [@ EXCEPT !.i = Instance(NewId, inst)]]
                 /\ UNCHANGED ret

\* lines 224-230: substitute the arguments and look the key up
SubstLookup(t) ==
    /\ stack[t] # <<>>
    /\ Top(t).pc = "lookup"
    /\ LET f == Top(t) IN
       IF KeyErrorIn(f.args, f.arg_values)
       THEN /\ Raise(t, "KeyError")
            /\ UNCHANGED <<templates, instantiations, classes>>
       ELSE LET args == SubstArgs(f.args, f.arg_values) IN
            IF CacheHit(f.template, args)
            THEN /\ Return(t, instantiations[f.template][args], TRUE)
                 /\ UNCHANGED <<templates, instantiations, classes>>
            ELSE /\ stack' = [stack EXCEPT ![t][Len(stack[t])] =
                       [f EXCEPT !.args = args, !.pc = "bases",
                                 !.arg_dict = ArgDict(templates[f.template].params, args)]]
                 /\ UNCHANGED <<templates, instantiations, classes, op, ret>>

\* lines 235-237: the next expression base is substituted
SubstBase(t) ==
    /\ stack[t] # <<>>
    /\ Top(t).pc = "bases"
    /\ Len(Top(t).done) < Len(templates[Top(t).template].expr_bases)
    /\ LET f == Top(t)
           expr == templates[f.template].expr_bases[Len(f.done) + 1]
       IN stack' = [stack EXCEPT ![t] =
              Append(@, Enter(expr.template, expr.args, f.arg_dict))]
    /\ UNCHANGED <<templates, instantiations, classes, op, ret>>

\* lines 238-245: every expression base is resolved; the class is created
SubstType(t) ==
    /\ stack[t] # <<>>
    /\ Top(t).pc = "bases"
    /\ Len(Top(t).done) = Len(templates[Top(t).template].expr_bases)
    /\ NumInsts < MaxInsts
    /\ LET f == Top(t)
           inst == NewInst(f.template, f.args)
           bases == InstBases(f.done, f.template)
           mro == Linearize(inst, bases)
       IN IF mro = <<NoMro>>
          THEN /\ Raise(t, "TypeError: mro")
               /\ UNCHANGED classes
          ELSE /\ classes' = (inst :> InstClass(f.template, f.args, f.arg_dict,
                                                 bases, mro)) @@ classes
               /\ stack' = [stack EXCEPT ![t][Len(stack[t])] =
                      [f EXCEPT !.pc = "store", !.inst = inst]]
               /\ UNCHANGED <<op, ret>>
    /\ UNCHANGED <<templates, instantiations>>

\* lines 246-247: the class is stored in the cache and returned
SubstStore(t) ==
    /\ stack[t] # <<>>
    /\ Top(t).pc = "store"
    /\ instantiations' = [instantiations EXCEPT ![Top(t).template] =
          CacheStore(@, Top(t).args, Top(t).inst)]
    /\ Return(t, Top(t).inst, FALSE)
    /\ UNCHANGED <<templates, classes>>

----------------------------------------------------------------------------
(* Template.__new__ *)

TemplateExpression(template, args) == [template |-> template, args |-> args]

\* A TemplateExpression object as a returned value
ExprRef(template, args) == [k |-> "expr", t |-> template, a |-> args, n |-> 0]

\* The bases of the class statement have been evaluated: the templates they
\* subscript are declared and the concrete instantiations they name exist.
HeaderReady(bases) ==
    \A i \in 1..Len(bases) :
        bases[i].k \in {"expr", "inst"} =>
            /\ bases[i].t \in DOMAIN templates
            /\ bases[i].k = "inst" => CacheHit(bases[i].t, bases[i].args)

RECURSIVE BasesNoTemplates(_)
\* lines 137-144: the bases of the private implementation base
BasesNoTemplates(bases) ==
    IF bases = <<>> THEN <<>>
    ELSE LET b == Head(bases)
             these == CASE b.k = "expr" -> templates[b.t].bases
                        [] b.k = "inst" -> <<instantiations[b.t][b.args]>>
                        [] b.k = "plain" -> <<PlainRef(b.t)>>
                        [] OTHER -> <<ParamRef(b.t)>>
         IN these \o BasesNoTemplates(Tail(bases))

RECURSIVE BaseTemplateExprs(_)
\* lines 138-142: the bases that are TemplateExpressions
BaseTemplateExprs(bases) ==
    IF bases = <<>> THEN <<>>
    ELSE (IF Head(bases).k = "expr"
          THEN <<TemplateExpression(Head(bases).t, Head(bases).args)>>
          ELSE <<>>) \o BaseTemplateExprs(Tail(bases))

\* lines 150-157: the attributes of the new Template object
TemplateRec(d, tid) ==
    [name |-> d.name, qualname |-> d.qualname, params |-> d.params,
     expr_bases |-> BaseTemplateExprs(d.bases), bases |-> <<BaseRef(tid)>>]

\* class <tid>(<bases>, metaclass=Template[<params>]): <body>
Declare(t, tid) ==
    /\ stack[t] = <<>> /\ op[t] = Idle
    /\ tid \notin DOMAIN templates
    /\ Cardinality(DOMAIN templates) < MaxTemplates
    /\ HeaderReady(Program[tid].bases)
    /\ LET d == Program[tid]
           base == BaseRef(tid)
           bases == BasesNoTemplates(d.bases)
           mro == Linearize(base, bases)
       IN IF mro = <<NoMro>>
          THEN /\ ret' = [ret EXCEPT ![t] = Error("TypeError: bases")]
               /\ UNCHANGED <<templates, instantiations, classes>>
          ELSE /\ classes' =
                     (base :> ClassRec([name |-> d.qualname, args |-> <<>>], bases, mro,
                                       "", <<>>, NoBinding, d.hook))
                     @@ (TmplRef(tid) :>
                            ClassRec([name |-> d.qualname, args |-> <<>>], <<base>>,
                                     <<TmplRef(tid)>> \o mro, "", <<>>, NoBinding, NoHook))
                     @@ classes
               /\ templates' = (tid :> TemplateRec(d, tid)) @@ templates
               /\ instantiations' = (tid :> EmptyDict) @@ instantiations
               /\ ret' = [ret EXCEPT ![t] =
                     Outcome("template", TmplRef(tid), 0, "", FALSE)]
    /\ UNCHANGED <<stack, op>>

----------------------------------------------------------------------------
(* Template.__getitem__ *)

\* Faulty variant: only too many arguments are rejected
ArityErrorTooMany(cls, items) == Len(items) > Len(templates[cls].params)

\* len(items) != len(cls.__params__)
ArityError(cls, items) == Len(items) # Len(templates[cls].params)

\* Faulty variant: only the first item is tested
AnyParamFirst(items) == items # <<>> /\ IsParam(items[1])

\* any(isinstance(i, TemplateParameter) for i in items)
AnyParam(items) == \E i \in 1..Len(items) : IsParam(items[i])

\* cls[sub]
GetItem(t, cls, sub) ==
    /\ stack[t] = <<>> /\ op[t] = Idle
    /\ cls \in DOMAIN templates
    /\ LET items == Normalize(sub) IN
       IF ArityError(cls, items)
       THEN /\ ret' = [ret EXCEPT ![t] = Error("TypeError: arity")]
            /\ UNCHANGED <<stack, op>>
       ELSE IF AnyParam(items)
       THEN /\ ret' = [ret EXCEPT ![t] =
                  Outcome("expr", ExprRef(cls, items), 0, "", FALSE)]
            /\ UNCHANGED <<stack, op>>
       ELSE /\ stack' = [stack EXCEPT ![t] = <<Enter(cls, items, NoBinding)>>]
            /\ op' = [op EXCEPT ![t] = OpRec("getitem", cls, items, NoInstance)]
            /\ ret' = [ret EXCEPT ![t] = NoOutcome]
    /\ UNCHANGED <<templates, instantiations, classes>>

----------------------------------------------------------------------------
(* Template.__call__ and the inference hooks *)

\* The template arguments a hook infers from the constructor argument s:
\* cls[len(s)], or cls[s[0], len(s)].
Infer(hook, s) ==
    IF hook.infer = "len" THEN <<Val(Len(s))>> ELSE <<s[1], Val(Len(s))>>

\* The template the hook subscripts: its argument cls, or the global it names.
HookTarget(hook, cls) == IF hook.own = "" THEN cls ELSE hook.own

\* cls(s): lines 187-192, up to the point where the hook's subscript is resolved
Call(t, cls, s) ==
    /\ stack[t] = <<>> /\ op[t] = Idle
    /\ cls \in DOMAIN templates
    /\ LET f == GetNewInferred(templates[cls].bases[1])
           target == HookTarget(f, cls)
       IN CASE f.kind = "none" ->
                 /\ ret' = [ret EXCEPT ![t] = Error("TypeError: no hook")]
                 /\ UNCHANGED <<stack, op>>
            [] f.kind = "plain" ->
                 /\ op' = [op EXCEPT ![t] = OpRec("call", cls, s, Instance(NewId, Test))]
                 /\ ret' = [ret EXCEPT ![t] = NoOutcome]
                 /\ UNCHANGED stack
            [] OTHER ->
                 IF ArityError(target, Infer(f, s))
                 THEN /\ ret' = [ret EXCEPT ![t] = Error("TypeError: arity")]
                      /\ UNCHANGED <<stack, op>>
                 ELSE /\ stack' = [stack EXCEPT ![t] =
                            <<Enter(target, Infer(f, s), NoBinding)>>]
                      /\ op' = [op EXCEPT ![t] = OpRec("call", cls, s, NoInstance)]
                      /\ ret' = [ret EXCEPT ![t] = NoOutcome]
    /\ UNCHANGED <<templates, instantiations, classes>>

\* Faulty variant: the hook's result is returned without the isinstance test
CallResultUnchecked(cls, i) == Outcome("obj", i.class, i.id, "", FALSE)

\* What __call__ does with the instance i its hook returned
CallResult(cls, i) ==
    IF InstanceCheck(cls, i)
    THEN Outcome("obj", i.class, i.id, "", FALSE)
    ELSE Error("TypeError: contract")

\* lines 193-198: the hook has returned the instance op[t].i
CallCheck(t) ==
    /\ op[t].kind = "call" /\ op[t].i # NoInstance
    /\ ret' = [ret EXCEPT ![t] = CallResult(op[t].template, op[t].i)]
    /\ op' = [op EXCEPT ![t] = Idle]
    /\ UNCHANGED <<templates, instantiations, classes, stack>>

----------------------------------------------------------------------------
Init ==
    /\ templates = [t \in {} |-> 0]
    /\ instantiations = [t \in {} |-> EmptyDict]
    /\ classes = [c \in {Test} |->
          ClassRec([name |-> "Test", args |-> <<>>], <<>>, <<Test>>,
                   "", <<>>, NoBinding, NoHook)]
    /\ stack = [t \in Threads |-> <<>>]
    /\ op = [t \in Threads |-> Idle]
    /\ ret = [t \in Threads |-> NoOutcome]

\* A sequential run: every operation runs to its end before the next starts.
Next ==
    \/ \E t \in SeqThreads, tid \in DOMAIN Program : Declare(t, tid)
    \/ \E t \in SeqThreads, cls \in DOMAIN Program :
          \E sub \in SubscriptsOf[Len(Program[cls].params)] : GetItem(t, cls, sub)
    \/ \E t \in SeqThreads, cls \in DOMAIN Program, s \in Ctors : Call(t, cls, s)
    \/ \E t \in SeqThreads : CallCheck(t)
    \/ \E t \in SeqThreads : SubstLookup(t)
    \/ \E t \in SeqThreads : SubstBase(t)
    \/ \E t \in SeqThreads : SubstType(t)
    \/ \E t \in SeqThreads : SubstStore(t)

Spec == Init /\ [][Next]_vars

\* The templates two threads apply while their steps interleave between the
\* cache lookup, the creation of the class and the cache insert.
ThreadProgram == {Foo, Baz}
ThreadSubscripts ==
    {[tuple |-> TRUE, item |-> NoArg, items |-> s] : s \in Tuples({Val(1)}, MaxLen)}

NextThreads ==
    \/ \E t \in SeqThreads, tid \in ThreadProgram : Declare(t, tid)
    \/ \E t \in Threads, cls \in ThreadProgram, sub \in ThreadSubscripts :
          GetItem(t, cls, sub)
    \/ \E t \in Threads : SubstLookup(t)
    \/ \E t \in Threads : SubstBase(t)
    \/ \E t \in Threads : SubstType(t)
    \/ \E t \in Threads : SubstStore(t)

SpecThreads == Init /\ [][NextThreads]_vars

\* The subscripts whose arguments are classes or one value: T[T], T[T[1]]
ClassSubscripts ==
    {[tuple |-> TRUE, item |-> NoArg, items |-> s] :
        s \in Tuples({ClassArg, Val(1)}, MaxLen)}

\* A step of a call that is under way
Resolve ==
    \E t \in SeqThreads :
        SubstLookup(t) \/ SubstBase(t) \/ SubstType(t) \/ SubstStore(t)

\* A sequential run whose applications may have classes as arguments
NextRun ==
    \/ \E t \in SeqThreads, tid \in DOMAIN Program : Declare(t, tid)
    \/ \E t \in SeqThreads, cls \in DOMAIN Program, sub \in ClassSubscripts :
          GetItem(t, cls, sub)
    \/ \E t \in SeqThreads, cls \in DOMAIN Program, s \in Ctors : Call(t, cls, s)
    \/ \E t \in SeqThreads : CallCheck(t)
    \/ \E t \in SeqThreads : SubstLookup(t)
    \/ \E t \in SeqThreads : SubstBase(t)
    \/ \E t \in SeqThreads : SubstType(t)
    \/ \E t \in SeqThreads : SubstStore(t)

\* The interpreter runs a call that is under way to its end: its next
\* statement is executed sooner or later.
SpecFair == Init /\ [][NextRun]_vars /\ WF_vars(Resolve)

----------------------------------------------------------------------------
(* Properties *)

\* The classes a template's cache holds
Cached(T) == Range(instantiations[T])

\* Every concrete instantiation that exists, cached or not
Insts == {c \in DOMAIN classes : c.k = "inst"}

\* The binding {params[i] -> A[i]}
Binding(params, A) ==
    [p \in Range(params) |-> A[CHOOSE i \in 1..Len(params) : params[i] = p]]

\* The expression e names only parameters of template D and concrete values
Resolvable(D, e) ==
    \A i \in 1..Len(e.args) :
        e.args[i].k = "param" => e.args[i].p \in Range(templates[D].params)

\* The arguments of expression e under the binding b
Substituted(e, b) ==
    [i \in 1..Len(e.args) |->
        IF e.args[i].k = "param" THEN b[e.args[i].p] ELSE e.args[i]]

\* Some class of c's ancestry was generated by template T
GeneratedBy(T, c) == \E b \in Range(MroOf(c)) : classes[b].template = T

\* C1 (Memoization): in a sequential run every application T[A] that returns
\* a type returns the first class ever built for (T, A); no second class is
\* ever built for a pair (T, A), and the cache holds that first class.
MemoStep ==
    /\ \A c \in DOMAIN classes' : c.k = "inst" => c.n = 1
    /\ \A T \in DOMAIN instantiations' : \A A \in DOMAIN instantiations'[T] :
          instantiations'[T][A] = InstRef(T, A, 1)
    /\ \A t \in SeqThreads :
          (op[t].kind = "getitem" /\ ret'[t].kind = "type") =>
              ret'[t].ref = InstRef(op[t].template, op[t].items, 1)
Memoization == [][MemoStep]_vars

\* An application of Baz answered from the cache
MemoizationWitness ==
    ret[1].kind = "type" /\ ret[1].cached /\ ret[1].ref.t = Baz

\* C2 (Concurrent uniqueness): whatever the interleaving of two threads, no
\* second class is built for a key, and a cache entry is the first class
\* built for its key.
ConcurrentUniqueness ==
    /\ \A c \in Insts : c.n = 1
    /\ \A T \in DOMAIN instantiations : \A A \in DOMAIN instantiations[T] :
          instantiations[T][A].n = 1

\* C3 (Subtype propagation): a concrete Derived[A] has in its ancestry the
\* class cached for each resolvable expression base under the positional
\* binding of Derived's parameters to A, and the ancestry of every ancestor.
SubtypePropagation ==
    \A c \in Insts :
        /\ \A i \in 1..Len(templates[c.t].expr_bases) :
              LET e == templates[c.t].expr_bases[i]
                  key == Substituted(e, Binding(templates[c.t].params, c.a))
              IN Resolvable(c.t, e) =>
                    /\ key \in DOMAIN instantiations[e.template]
                    /\ IsSubclass(c, instantiations[e.template][key])
        /\ \A b \in Range(MroOf(c)) : Range(MroOf(b)) \subseteq Range(MroOf(c))

\* An Outer[v] exists: a subtype of Baz[v] and, through it, of Foo[v, v]
SubtypePropagationWitness ==
    \E c \in Insts :
        /\ c.t = Outer
        /\ InstRef(Baz, c.a, 1) \in Range(MroOf(c))
        /\ InstRef(Foo, c.a \o c.a, 1) \in Range(MroOf(c))

RECURSIVE DerivesFrom(_)
\* The templates D derives from: those of its declared bases, transitively
DerivesFrom(D) ==
    UNION {{b.t} \cup DerivesFrom(b.t) :
             b \in {x \in Range(classes[BaseRef(D)].bases) :
                       x.k \in {"inst", "base"}}}

\* C4 (Template subtype test): C is a subtype of T iff some class of C's
\* ancestry was generated by T; every T[A] is a subtype of T, its instances
\* are instances of T and of T[A], and a Derived[A] is a subtype of every
\* template Derived derives from.
SubtypeTest ==
    /\ \A T \in DOMAIN templates : \A C \in DOMAIN classes :
          SubclassCheck(T, C) <=> GeneratedBy(T, C)
    /\ \A T \in DOMAIN templates : \A c \in Cached(T) :
          /\ SubclassCheck(T, c)
          /\ InstanceCheck(T, Instance(1, c))
          /\ IsSubclass(c, c)
          /\ \A B \in DerivesFrom(T) : SubclassCheck(B, c)

\* A Baz[v] is a subtype of Foo, while a Foo[v, v] is no subtype of Baz
SubtypeTestWitness ==
    /\ Baz \in DOMAIN templates
    /\ \E c \in Cached(Baz) :
          /\ SubclassCheck(Foo, c)
          /\ \E d \in Range(MroOf(c)) : d.k = "inst" /\ ~SubclassCheck(Baz, d)

\* The class template D's i-th expression base resolves to for arguments A
ResolvedBase(D, A, i) ==
    LET e == templates[D].expr_bases[i]
    IN InstRef(e.template, Substituted(e, Binding(templates[D].params, A)), 1)

\* The declared bases of D[A] other than its i-th expression base: the
\* concrete classes of the class statement and the other resolved expressions
OtherBases(D, A, i) ==
    {b \in Range(classes[BaseRef(D)].bases) : b.k \in {"inst", "plain"}}
    \cup {ResolvedBase(D, A, j) :
            j \in {x \in 1..Len(templates[D].expr_bases) :
                      x # i /\ Resolvable(D, templates[D].expr_bases[x])}}

\* Two cached instantiations of one template are different classes, neither
\* a subtype of the other
SiblingsDistinct ==
    \A T \in DOMAIN templates : \A A, B \in DOMAIN instantiations[T] :
        A # B => /\ instantiations[T][A] # instantiations[T][B]
                 /\ ~IsSubclass(instantiations[T][A], instantiations[T][B])

\* C5 as stated (Sibling instantiations are unrelated): T[A] and T[B] are
\* distinct and unrelated for A # B, and a Derived[v] with expression base
\* Base[P] is a subtype of no Base[w] other than Base[v].
SiblingsUnrelated ==
    /\ SiblingsDistinct
    /\ \A c \in Insts : \A i \in 1..Len(templates[c.t].expr_bases) :
          LET e == templates[c.t].expr_bases[i]
          IN (Resolvable(c.t, e) /\ AnyParam(e.args)) =>
                \A w \in Cached(e.template) :
                    IsSubclass(c, w) => w = ResolvedBase(c.t, c.a, i)

\* C5 as amended: T[A] and T[B] are distinct and unrelated for A # B, and a
\* Derived[v] with expression base Base[P] is a subtype of a Base[w] other
\* than Base[v] only if Base[w] is in the ancestry of another declared base
\* of Derived.
SiblingsUnrelatedUnlessInherited ==
    /\ SiblingsDistinct
    /\ \A c \in Insts : \A i \in 1..Len(templates[c.t].expr_bases) :
          LET e == templates[c.t].expr_bases[i]
          IN (Resolvable(c.t, e) /\ AnyParam(e.args)) =>
                \A w \in Cached(e.template) :
                    IsSubclass(c, w) =>
                        \/ w = ResolvedBase(c.t, c.a, i)
                        \/ \E b \in OtherBases(c.t, c.a, i) :
                              b \in DOMAIN classes /\ IsSubclass(b, w)

\* Una[2, v] exists: a subtype of Foo[2, 2] that inherits Foo[1, 1] from its
\* concrete base Baz[1]
SiblingsWitness ==
    \E c \in Insts :
        /\ c.t = Una
        /\ IsSubclass(c, InstRef(Foo, <<Val(2), Val(2)>>, 1))
        /\ IsSubclass(c, InstRef(Foo, <<Val(1), Val(1)>>, 1))

\* The number of parameters template T was declared with
Arity(T) == Len(templates[T].params)

\* The subscripts of a wrong, and of the right, length for n parameters
WrongLength == [n \in 0..MaxLen |-> {sub \in SubscriptsOf[n] : Len(Normalize(sub)) # n}]
RightLength == [n \in 0..MaxLen |-> {sub \in SubscriptsOf[n] : Len(Normalize(sub)) = n}]

\* Nothing was built, stored or started by the step
NothingDone ==
    /\ stack' = stack
    /\ classes' = classes
    /\ instantiations' = instantiations

\* C6 (Arity enforcement): an application of T to a tuple of another length
\* than T's parameter list raises the arity error at once: no expression is
\* returned, no resolution starts, no class is built and no cache changes.
\* No resolution is ever under way for, and no cache ever holds, a key of a
\* wrong length.
ArityStep ==
    /\ \A t \in SeqThreads : \A T \in DOMAIN templates :
          \A sub \in WrongLength[Arity(T)] :
              GetItem(t, T, sub) =>
                  ret'[t] = Error("TypeError: arity") /\ NothingDone
    /\ \A T \in DOMAIN instantiations' : \A A \in DOMAIN instantiations'[T] :
          Len(A) = Len(templates'[T].params)
    /\ \A t \in SeqThreads : \A i \in 1..Len(stack'[t]) :
          Len(stack'[t][i].args) = Len(templates'[stack'[t][i].template].params)
ArityEnforcement == [][ArityStep]_vars

\* An application was refused for its arity while a cache holds a class
ArityWitness ==
    /\ ret[1] = Error("TypeError: arity")
    /\ \E T \in DOMAIN templates : instantiations[T] # EmptyDict

\* C7 (Apply dichotomy): an application of correct arity returns a
\* TemplateExpression iff some argument is a parameter, and then builds and
\* caches nothing; otherwise it starts a resolution, and when that returns,
\* it returns a concrete class, which T's cache then holds under the key.
DichotomyStep ==
    /\ \A t \in SeqThreads : \A T \in DOMAIN templates :
          \A sub \in RightLength[Arity(T)] :
              GetItem(t, T, sub) =>
                  IF \E i \in 1..Arity(T) : Normalize(sub)[i].k = "param"
                  THEN /\ ret'[t] = Outcome("expr", ExprRef(T, Normalize(sub)),
                                            0, "", FALSE)
                       /\ NothingDone
                  ELSE /\ ret'[t].kind # "expr"
                       /\ op'[t] = OpRec("getitem", T, Normalize(sub), NoInstance)
    /\ \A t \in SeqThreads :
          (op[t].kind = "getitem" /\ op'[t] = Idle) =>
              /\ ret'[t].kind \in {"type", "error"}
              /\ ret'[t].kind = "type" =>
                    /\ ret'[t].ref.k = "inst"
                    /\ op[t].items \in DOMAIN instantiations'[op[t].template]
                    /\ instantiations'[op[t].template][op[t].items] = ret'[t].ref
ApplyDichotomy == [][DichotomyStep]_vars

\* An application with a parameter gave an expression, after concrete ones
\* had filled a cache
DichotomyWitness ==
    /\ ret[1].kind = "expr"
    /\ \E T \in DOMAIN templates : instantiations[T] # EmptyDict

\* C8 (Binding introspection): a concrete T[A] records T and shows the
\* methods of T's body the binding {T.params[i] -> A[i]}; reached through a
\* class that has an instantiation of another template T in its ancestry,
\* the methods of T's body see the binding of such an instantiation of T.
BindingIntrospection ==
    \A c \in Insts :
        /\ classes[c].template = c.t
        /\ GetArgs(c, templates[c.t].name) = Binding(templates[c.t].params, c.a)
        /\ \A T \in DOMAIN templates :
              (T # c.t /\ GeneratedBy(T, c)) =>
                  \E b \in Range(MroOf(c)) :
                      /\ b.k = "inst" /\ b.t = T
                      /\ GetArgs(c, templates[T].name)
                            = Binding(templates[T].params, b.a)

\* The inference hook the constructor call T(...) finds, if any
HookOf(T) == GetNewInferred(BaseRef(T))

\* C9 (Inference hook result): when T's hook infers the arguments A and
\* returns an instance of cls[A], T(...) returns an instance of the one
\* class ever built for (T, A), which is T's cache entry for A.
InferStep ==
    \A t \in SeqThreads :
        (/\ op[t].kind = "call" /\ op'[t] = Idle /\ ret'[t].kind = "obj"
         /\ HookOf(op[t].template).kind = "infer"
         /\ HookTarget(HookOf(op[t].template), op[t].template) = op[t].template)
        => LET T == op[t].template
               A == Infer(HookOf(T), op[t].items)
           IN /\ ret'[t].ref = InstRef(T, A, 1)
              /\ A \in DOMAIN instantiations'[T]
              /\ instantiations'[T][A] = ret'[t].ref
InferredType == [][InferStep]_vars

\* Baz(s) returned an instance of the class cached as Baz[len(s)]
InferredTypeWitness ==
    /\ ret[1].kind = "obj"
    /\ ret[1].ref.t = Baz
    /\ ret[1].ref \in Cached(Baz)

\* C10 (Construct errors): T(...) with no hook to be found on T's private
\* base raises the no-hook error and does nothing else; the object a hook
\* returned is returned unchanged if a class of its type's ancestry was
\* generated by T, and the contract error is raised if not.
ConstructStep ==
    /\ \A t \in SeqThreads : \A T \in DOMAIN templates : \A s \in Ctors :
          (/\ \A b \in Range(MroOf(BaseRef(T))) : classes[b].hook = NoHook
           /\ Call(t, T, s))
          => ret'[t] = Error("TypeError: no hook") /\ op'[t] = Idle /\ NothingDone
    /\ \A t \in SeqThreads :
          (op[t].kind = "call" /\ op[t].i # NoInstance /\ op'[t] = Idle) =>
              IF GeneratedBy(op[t].template, op[t].i.class)
              THEN ret'[t] = Outcome("obj", op[t].i.class, op[t].i.id, "", FALSE)
              ELSE ret'[t] = Error("TypeError: contract")
ConstructErrors == [][ConstructStep]_vars

\* A hook returned an object that is no instance of the template
ConstructErrorsWitness == ret[1] = Error("TypeError: contract")

\* The declaration lists a bare TemplateParameter among its bases
HasParamBase(tid) ==
    \E i \in 1..Len(Program[tid].bases) : Program[tid].bases[i].k = "param"

\* C11 (Parameter as base): a class statement that lists one of the
\* template's parameters among its bases declares the template, and no
\* instantiation of such a template keeps the bare parameter as an ancestor.
ParamBaseStep ==
    /\ \A t \in SeqThreads : \A tid \in DOMAIN Program :
          (HasParamBase(tid) /\ Declare(t, tid)) =>
              /\ tid \in DOMAIN templates'
              /\ ret'[t] = Outcome("template", TmplRef(tid), 0, "", FALSE)
    /\ \A c \in DOMAIN classes' :
          c.k = "inst" => \A b \in Range(classes'[c].mro) : b.k # "param"
ParameterAsBase == [][ParamBaseStep]_vars

\* C12 (Cache monotonicity): a template is declared with an empty cache; no
\* step of a sequential run removes a cache entry, rebinds a key to another
\* class, or changes a declared template's parameters or expression bases.
MonotonicStep ==
    \A T \in DOMAIN templates' :
        IF T \in DOMAIN templates
        THEN /\ templates'[T] = templates[T]
             /\ \A A \in DOMAIN instantiations[T] :
                   /\ A \in DOMAIN instantiations'[T]
                   /\ instantiations'[T][A] = instantiations[T][A]
        ELSE instantiations'[T] = EmptyDict
CacheMonotonicity ==
    [][DOMAIN templates \subseteq DOMAIN templates' /\ MonotonicStep]_vars

\* A cache holds two classes while another template's cache holds a third
CacheMonotonicityWitness ==
    \E T, U \in DOMAIN templates :
        /\ T # U
        /\ Cardinality(DOMAIN instantiations[T]) >= 2
        /\ instantiations[U] # EmptyDict

\* The frames of thread t that have passed the cache lookup: their
\* instantiation is being resolved
Resolving(t) == {i \in 1..Len(stack[t]) : stack[t][i].pc # "lookup"}

\* C13 as stated (Cache-before-recursion ordering): while the resolution of
\* T[A] has recursed into an expression base of T, T's cache holds an entry
\* for A.
CacheBeforeRecursion ==
    \A t \in SeqThreads : \A i \in Resolving(t) :
        i < Len(stack[t]) =>
            stack[t][i].args \in DOMAIN instantiations[stack[t][i].template]

\* C13 as amended: in a sequential run T's cache has no entry for A while
\* T[A] is being resolved, from the cache miss until the built class is
\* stored; and no request for T arises inside a resolution of T, the frames
\* of one resolution being of different templates.
StoreAfterResolution ==
    \A t \in SeqThreads : \A i \in 1..Len(stack[t]) :
        /\ i \in Resolving(t) =>
              stack[t][i].args \notin DOMAIN instantiations[stack[t][i].template]
        /\ \A j \in 1..Len(stack[t]) :
              j # i => stack[t][j].template # stack[t][i].template

\* The resolution of Outer[v] has recursed two levels deep: into Baz[v] and,
\* from there, into Foo[v, v]
StoreAfterResolutionWitness ==
    /\ Len(stack[1]) = 3
    /\ stack[1][1].template = Outer
    /\ stack[1][3].pc = "store"

RECURSIVE ExprReach(_, _)
\* The templates reached from T along at most n expression bases
ExprReach(T, n) ==
    IF n = 0 THEN {}
    ELSE LET D == {templates[T].expr_bases[i].template :
                     i \in 1..Len(templates[T].expr_bases)}
         IN D \cup UNION {ExprReach(U, n - 1) : U \in D}

RECURSIVE ExprDepth(_)
\* The depth of the graph of expression bases below T
ExprDepth(T) ==
    LET D == {ExprDepth(templates[T].expr_bases[i].template) :
                i \in 1..Len(templates[T].expr_bases)}
    IN 1 + (IF D = {} THEN 0 ELSE CHOOSE d \in D : \A e \in D : e <= d)

\* The graph of expression bases has no cycle, and a resolution is never
\* deeper than the graph below the template it started from
DepthBounded ==
    /\ \A T \in DOMAIN templates :
          T \notin ExprReach(T, Cardinality(DOMAIN templates))
    /\ \A t \in SeqThreads :
          stack[t] # <<>> => Len(stack[t]) <= ExprDepth(stack[t][1].template)

\* The classes the resolution of an instantiation of T can build
ChainSize(T) == 1 + Cardinality(ExprReach(T, Cardinality(DOMAIN templates)))

\* Thread t has entered the resolution of an application of concrete
\* arguments, with room in the model for the classes it can build
Applying(t) ==
    /\ Len(stack[t]) = 1
    /\ stack[t][1].pc = "lookup"
    /\ NumInsts + ChainSize(stack[t][1].template) <= MaxInsts

\* C14 (Termination): every application of correct arity to concrete
\* arguments, classes among them, comes to its end, with a class or with an
\* error; the graph of expression bases is acyclic and the depth of a
\* resolution is bounded by its depth.
Termination ==
    /\ []DepthBounded
    /\ \A t \in SeqThreads : Applying(t) ~> (stack[t] = <<>>)

\* Sub[Sub] has been resolved, three frames deep (Sub, Baz, Foo), and has
\* returned its class
TerminationWitness ==
    /\ Sub \in DOMAIN templates
    /\ <<ClassArg>> \in DOMAIN instantiations[Sub]
    /\ ret[1].kind = "type" /\ ret[1].ref.t = Sub
    /\ stack[1] = <<>>

\* Class a comes before class b in the ancestry of c
Before(c, a, b) ==
    \E i, j \in 1..Len(MroOf(c)) :
        i < j /\ MroOf(c)[i] = a /\ MroOf(c)[j] = b

\* The already-concrete bases of D's class statement
ConcreteBases(D) ==
    {b \in Range(classes[BaseRef(D)].bases) : b.k \in {"inst", "plain"}}

\* The expression bases of D resolved under A, in declared order
ResolvedBases(D, A) ==
    [i \in 1..Len(templates[D].expr_bases) |-> ResolvedBase(D, A, i)]

\* The ordering as first stated: resolved expression bases, then the concrete
\* declared bases, then the private implementation base.
AncestryOrder ==
    \A c \in Insts :
        /\ \A r \in Range(ResolvedBases(c.t, c.a)) :
              Before(c, r, BaseRef(c.t))
        /\ \A b \in ConcreteBases(c.t) : Before(c, b, BaseRef(c.t))

\* C15 (Ancestry order): the bases of the class built for T[A] are the
\* resolved expression bases of T in declared order followed by T's private
\* implementation base; the concrete declared bases of T are bases of that
\* implementation base, so in the ancestry the resolved expression bases come
\* first, in declared order, then the implementation base, and every concrete
\* declared base comes after the implementation base.
AncestryImplBaseFirst ==
    \A c \in Insts :
        LET D == c.t
            rs == ResolvedBases(D, c.a)
        IN /\ classes[c].bases = rs \o <<BaseRef(D)>>
           /\ Head(MroOf(c)) = c
           /\ \A i \in 1..Len(rs) :
                 /\ Before(c, rs[i], BaseRef(D))
                 /\ \A j \in 1..Len(rs) : i < j => Before(c, rs[i], rs[j])
           /\ \A b \in ConcreteBases(D) :
                 /\ b \in Range(classes[BaseRef(D)].bases)
                 /\ Before(c, BaseRef(D), b)

\* An Outer[v] has been built: Baz[v] is ahead of Outer's implementation
\* base, and the concrete declared base Foo[1, 2] is behind it
AncestryWitness ==
    \E c \in Insts :
        /\ c.t = Outer
        /\ Before(c, ResolvedBase(Outer, c.a, 1), BaseRef(Outer))
        /\ \E b \in ConcreteBases(Outer) : Before(c, BaseRef(Outer), b)

\* The key the frame f looks up in its template's cache
KeyOf(f) == Substituted([args |-> f.args], f.arg_values)

\* Thread t is about to look up a key its template's cache holds
Hit(t) ==
    /\ stack[t] # <<>>
    /\ Top(t).pc = "lookup"
    /\ ~KeyErrorIn(Top(t).args, Top(t).arg_values)
    /\ KeyOf(Top(t)) \in DOMAIN instantiations[Top(t).template]

\* The step of a thread from a cache hit: the lookup returns the entry to
\* whoever asked, and nothing else happens
HitStep(t) ==
    LET f == Top(t)
        n == Len(stack[t])
        c == instantiations[f.template][KeyOf(f)]
    IN /\ instantiations' = instantiations
       /\ classes' = classes
       /\ templates' = templates
       /\ Len(stack'[t]) = n - 1
       /\ n > 1 =>
            /\ stack'[t][n - 1] = [stack[t][n - 1] EXCEPT !.done = Append(@, c)]
            /\ SubSeq(stack'[t], 1, n - 2) = SubSeq(stack[t], 1, n - 2)
       /\ (n = 1 /\ op[t].kind = "getitem") =>
            ret'[t] = Outcome("type", c, 0, "", TRUE)

\* C16 (Cache hit has no effect): an application whose key is already in the
\* template's cache returns the cached class in one step, without entering
\* the resolution of any expression base and without building any class,
\* and leaves every cache, and every class, as it was.
CacheHitNoEffect ==
    [][\A t \in SeqThreads : Hit(t) => HitStep(t)]_vars

\* Foo[1, 2] has been applied a second time and came from the cache, while
\* the caches of Foo and Baz hold other classes as well
CacheHitWitness ==
    /\ ret[1].kind = "type" /\ ret[1].cached
    /\ ret[1].ref = InstRef(Foo, <<Val(1), Val(2)>>, 1)
    /\ Cardinality(DOMAIN instantiations[Foo]) >= 2
    /\ Baz \in DOMAIN templates /\ instantiations[Baz] # <<>>

\* Template D declares an expression base naming a parameter D does not have
Unresolvable(D) ==
    \E i \in 1..Len(templates[D].expr_bases) :
        ~Resolvable(D, templates[D].expr_bases[i])

\* The expression bases of D listed before the first one that cannot be
\* resolved
EarlierBases(D) ==
    {i \in 1..Len(templates[D].expr_bases) :
        \A j \in 1..i : Resolvable(D, templates[D].expr_bases[j])}

\* Thread t is inside an application of a template with such a base
Failing(t) ==
    /\ stack[t] # <<>>
    /\ Unresolvable(stack[t][1].template)

\* The failure as first stated: nothing is built and no cache changes while
\* the application runs, and it ends with the incomplete-binding error.
IncompleteBindingNoEffect ==
    [][\A t \in SeqThreads : Failing(t) =>
          /\ instantiations' = instantiations
          /\ classes' = classes
          /\ stack'[t] = <<>> => ret'[t] = Error("KeyError")]_vars

\* The end of an application D[A] of a template with an unresolvable base
FailStep(t) ==
    LET D == stack[t][1].template
        A == stack[t][1].args
    IN /\ \A c \in DOMAIN classes' : ~(c.k = "inst" /\ c.t = D)
       /\ instantiations'[D] = <<>>
       /\ \A T \in DOMAIN instantiations : \A k \in DOMAIN instantiations[T] :
             /\ k \in DOMAIN instantiations'[T]
             /\ instantiations'[T][k] = instantiations[T][k]
       /\ stack'[t] = <<>> =>
             /\ ret'[t] = Error("KeyError")
             /\ \A i \in EarlierBases(D) :
                   LET e == templates[D].expr_bases[i]
                       k == Substituted(e, Binding(templates[D].params, A))
                   IN /\ k \in DOMAIN instantiations'[e.template]
                      /\ instantiations'[e.template][k] = ResolvedBase(D, A, i)
                      /\ ResolvedBase(D, A, i) \in DOMAIN classes'

\* C17 (Incomplete binding): an application D[A] of a template D with an
\* expression base naming a parameter D does not have ends with the
\* incomplete-binding error, whatever the caches hold; it builds no class
\* for D and D's cache stays empty, and no cache entry is removed or
\* changed; the expression bases listed before the offending one have been
\* resolved by then, and their classes are in their templates' caches.
IncompleteBindingFails ==
    [][\A t \in SeqThreads : Failing(t) => FailStep(t)]_vars

\* Bad[v] has failed, and left Baz[v] and Foo[v, v] in their caches
IncompleteBindingWitness ==
    /\ ret[1] = Error("KeyError")
    /\ Bad \in DOMAIN templates
    /\ instantiations[Bad] = <<>>
    /\ instantiations[Baz] # <<>>
    /\ instantiations[Foo] # <<>>

\* The entry of T's cache under key A is a class generated by T whose
\* binding maps T's parameters to A
EntryOfTemplate(T, A) ==
    LET c == instantiations[T][A]
    IN /\ c \in DOMAIN classes
       /\ classes[c].template = T
       /\ GetTemplate(c) = T
       /\ classes[c].args = Binding(templates[T].params, A)
       /\ GetArgs(c, templates[T].name) = Binding(templates[T].params, A)

\* Every expression base of T, substituted under the binding of A, is the
\* entry of its own template's cache and an ancestor of the entry for A
ClosedUnderBases(T, A) ==
    \A i \in 1..Len(templates[T].expr_bases) :
        LET e == templates[T].expr_bases[i]
            k == Substituted(e, Binding(templates[T].params, A))
        IN /\ Resolvable(T, e)
           /\ k \in DOMAIN instantiations[e.template]
           /\ instantiations[e.template][k] \in Range(MroOf(instantiations[T][A]))
           /\ instantiations[e.template][k] # instantiations[T][A]
           /\ EntryOfTemplate(e.template, k)

\* C18 (Cache consistency): in a sequential run every cache entry (T, A) is
\* a class generated by T with the binding {T.params[i] -> A[i]}; each
\* expression base of T, substituted under that binding, is the entry of its
\* template's cache under the substituted key and an ancestor of the entry;
\* and the caches of different templates share no class.
CacheConsistency ==
    /\ DOMAIN instantiations = DOMAIN templates
    /\ \A T \in DOMAIN templates : \A A \in DOMAIN instantiations[T] :
          EntryOfTemplate(T, A) /\ ClosedUnderBases(T, A)
    /\ \A T, U \in DOMAIN templates :
          T # U => Cached(T) \cap Cached(U) = {}

\* Outer[v] is cached along with Foo[1, 2], whose binding tells K from V
CacheConsistencyWitness ==
    /\ Outer \in DOMAIN templates
    /\ instantiations[Outer] # <<>>
    /\ <<Val(1), Val(2)>> \in DOMAIN instantiations[Foo]
    /\ instantiations[Baz] # <<>>

\* The classes of the ancestry of T's private base whose body defines a hook
HookDefiners(T) ==
    {i \in 1..Len(MroOf(BaseRef(T))) :
        classes[MroOf(BaseRef(T))[i]].hook # NoHook}

\* The hook of the nearest such class
NearestHook(T) == classes[MroOf(BaseRef(T))[Min(HookDefiners(T))]].hook

\* T's class body defines no hook, but a class below its private base does
InheritsHook(T) ==
    /\ classes[BaseRef(T)].hook = NoHook
    /\ HookDefiners(T) # {}

\* T(s) for a template that inherits its hook: the inherited hook runs with
\* T as its template argument, so what it subscripts is T
InheritedHookStep ==
    \A t \in SeqThreads : \A T \in DOMAIN templates : \A s \in Ctors :
        (/\ stack[t] = <<>> /\ op[t] = Idle
         /\ InheritsHook(T)
         /\ Call(t, T, s)) =>
            LET h == NearestHook(T)
            IN /\ ret'[t] # Error("TypeError: no hook")
               /\ (h.kind = "infer" /\ h.own = "") =>
                     IF Len(Infer(h, s)) # Len(templates[T].params)
                     THEN ret'[t] = Error("TypeError: arity") /\ stack'[t] = <<>>
                     ELSE /\ stack'[t] = <<Enter(T, Infer(h, s), NoBinding)>>
                          /\ op'[t] = OpRec("call", T, s, NoInstance)

\* What T(s) returns comes from a class generated by T, and the no-hook
\* error is raised by a call only if no class of the ancestry has a hook
HookResultStep ==
    \A t \in SeqThreads :
        /\ (op[t].kind = "call" /\ op'[t] = Idle /\ ret'[t].kind = "obj") =>
              /\ GeneratedBy(op[t].template, ret'[t].ref)
              /\ InheritsHook(op[t].template) /\ NearestHook(op[t].template).own = ""
                    => ret'[t].ref.t = op[t].template
        /\ \A T \in DOMAIN templates : \A s \in Ctors :
              (/\ ret'[t] = Error("TypeError: no hook")
               /\ HookDefiners(T) # {})
                  => ~Call(t, T, s)

\* C19 (Hook inheritance): a template whose body defines no inference hook
\* but whose private base has, in its ancestry, the private base of a
\* template that defines one (through an expression base or a concrete
\* declared base) uses that hook when called: the hook runs with the called
\* template as its argument, its result is returned only if it is an
\* instance of the called template, and the no-hook error is raised only
\* when no class of that ancestry defines a hook.
HookInheritance == [][InheritedHookStep /\ HookResultStep]_vars

\* Sub, whose body has no hook, has been called and returned an instance of
\* a Sub[n] through the hook of Baz
HookInheritanceWitness ==
    /\ Sub \in DOMAIN templates
    /\ classes[BaseRef(Sub)].hook = NoHook
    /\ ret[1].kind = "obj"
    /\ ret[1].ref.t = Sub
    /\ ret[1].ref \in Cached(Sub)
====
